---- MODULE Spec2Model ----
(***************************************************************************)
(* A model of assets/generate_icons.py: the import guard, the acquisition  *)
(* of the base image (load or synthesis), the resize loop, the collection  *)
(* loop and the ICO packaging, run against a directory modelled as a       *)
(* partial function from paths to files.                                   *)
(*                                                                         *)
(* An image is a record [dims, origin, odims, ops]: its raster dimensions, *)
(* where its pixels come from ("external" file content or the "drawn"      *)
(* placeholder), the dimensions of that origin, and the resampling         *)
(* operations applied since.  A file adds its format and, for an ICO, the  *)
(* embedded frames.                                                        *)
(***************************************************************************)
EXTENDS Integers, Sequences, FiniteSets, TLC

VARIABLES
    pillow,        \* whether "from PIL import Image" succeeds in this environment
    fs,            \* the directory SCRIPT_DIR: path -> file, for the files that exist
    pc,            \* position of the run
    size_i,        \* index into SIZES of the running for loop
    base_img,      \* main's local base_img
    ico_images,    \* main's local ico_images
    exit_status,   \* -1 while running, then the process' exit status
    stdout,        \* the messages printed so far by this run
    calls,         \* history: the library and filesystem calls of this run, in order
    run,           \* history: number of the current invocation of the script
    fs_start,      \* history: the directory as it was when this run started
    synth_run      \* history: the run whose acquisition synthesized the base (0: none)

vars == <<pillow, fs, pc, size_i, base_img, ico_images, exit_status, stdout,
          calls, run, fs_start, synth_run>>

---------------------------------------------------------------------------
(* Bounds of the model *)

MaxRuns == 3

\* Dimensions a base image supplied by the user may have.
ExternalDims == {<<256, 256>>, <<512, 384>>, <<8, 8>>}

---------------------------------------------------------------------------
(* Program constants and paths *)

SIZES == <<16, 32, 48, 64, 128, 256>>

NativeSize == 256

CanvasSize == 256

\* Mutation: the size is missing from the file name.
UnsizedIconPath(size) == <<"icon-", 0, ".png">>

IconPath(size) == <<"icon-", size, ".png">>

base_image_path == <<"icon-", 256, ".png">>

ico_path == <<"icon", 0, ".ico">>

---------------------------------------------------------------------------
(* Images and files *)

NoDims == <<0, 0>>

NoImage == [dims |-> NoDims, origin |-> "none", odims |-> NoDims, ops |-> <<>>]

NoPath == <<"", 0, "">>

FileOf(fmt, img, frames) ==
    [fmt |-> fmt, dims |-> img.dims, origin |-> img.origin, odims |-> img.odims,
     ops |-> img.ops, frames |-> frames]

\* What a save that failed midway, or a file that is no image, looks like.
Truncated == FileOf("truncated", NoImage, <<>>)

ExternalFile(d) ==
    FileOf("PNG", [dims |-> d, origin |-> "external", odims |-> d, ops |-> <<>>], <<>>)

Exists(f, p) == p \in DOMAIN f

WriteFile(f, p, file) == [q \in DOMAIN f \cup {p} |-> IF q = p THEN file ELSE f[q]]

RemoveFile(f, p) == [q \in DOMAIN f \ {p} |-> f[q]]

\* Image.save(path) of a PNG: lossless, keeps dimensions and pixels.
SavePng(img) == FileOf("PNG", img, <<>>)

\* Image.open(path) identifies a file by its header.
Identifiable(file) == file.fmt \in {"PNG", "ICO"}

ImageOpen(file) ==
    [dims |-> file.dims, origin |-> file.origin, odims |-> file.odims, ops |-> file.ops]

\* A save that raises leaves the directory as it was (the file could not be
\* opened, or was created and removed again) or leaves a truncated file.
FailedSave(f, p) == {f, WriteFile(f, p, Truncated)}

\* Mutation: the placeholder is drawn on a 128 x 128 canvas.
SmallCanvasIcon ==
    [dims |-> <<128, 128>>, origin |-> "drawn", odims |-> <<128, 128>>, ops |-> <<>>]

\* create_simple_icon(): a new RGB canvas with the fixed shapes drawn on it.
create_simple_icon ==
    [dims |-> <<CanvasSize, CanvasSize>>, origin |-> "drawn",
     odims |-> <<CanvasSize, CanvasSize>>, ops |-> <<>>]

\* base_img.resize((size, size), LANCZOS)
Resize(img, size) ==
    [img EXCEPT !.dims = <<size, size>>, !.ops = Append(@, <<"resize", size, size>>)]

---------------------------------------------------------------------------
(* ICO serialization: Image.save(format='ICO', sizes=...) on the first image *)

Abs(n) == IF n < 0 THEN -n ELSE n

Max2(a, b) == IF a >= b THEN a ELSE b

\* round_aspect(number, key) for number = num/den: of its floor and its
\* ceiling the one with the smaller key (the floor on a tie), at least 1.
\* The key of n is the distance of the resulting ratio from the aspect w/h:
\* |w/h - n/other| for a width (across), |w/h - other/n| for a height, and
\* 0 for n = 0; keys are compared as fractions <<numerator, denominator>>.
RoundAspect(num, den, other, w, h, across) ==
    LET lo == num \div den
        hi == IF num % den = 0 THEN lo ELSE lo + 1
        key(n) == IF across THEN <<Abs(w * other - n * h), 1>>
                  ELSE IF n = 0 THEN <<0, 1>>
                  ELSE <<Abs(w * n - other * h), n>>
        less(a, b) == a[1] * b[2] < b[1] * a[2]
    IN  Max2(IF less(key(hi), key(lo)) THEN hi ELSE lo, 1)

\* Image.thumbnail(size): shrink within size, keeping the aspect ratio;
\* no change when the image already fits.
ThumbnailDims(dims, size) ==
    LET w == dims[1]  h == dims[2]  x == size[1]  y == size[2]
    IN  IF x >= w /\ y >= h THEN dims
        ELSE IF x * h >= w * y
             THEN <<RoundAspect(y * w, h, y, w, h, TRUE), y>>
             ELSE <<x, RoundAspect(x * h, w, x, w, h, FALSE)>>

Thumbnail(img, size) ==
    LET d == ThumbnailDims(img.dims, size)
    IN  IF d = img.dims THEN img
        ELSE [img EXCEPT !.dims = d, !.ops = Append(@, <<"thumbnail", d[1], d[2]>>)]

DimsLess(a, b) == a[1] < b[1] \/ (a[1] = b[1] /\ a[2] < b[2])

RECURSIVE SortedDims(_)
SortedDims(S) ==
    IF S = {} THEN <<>>
    ELSE LET m == CHOOSE a \in S : \A b \in S \ {a} : DimsLess(a, b)
         IN  <<m>> \o SortedDims(S \ {m})

\* The sizes the ICO writer keeps: those that fit in the image being saved
\* and in the format's 256 limit.
IcoKeeps(im, size) ==
    ~(size[1] > im.dims[1] \/ size[2] > im.dims[2] \/ size[1] > 256 \/ size[2] > 256)

\* The frames written: for each kept size, in sorted order, the image being
\* saved when it has that size, else a thumbnail of it.
IcoFrames(im, sizes) ==
    LET kept == SortedDims({s \in {sizes[k] : k \in DOMAIN sizes} : IcoKeeps(im, s)})
    IN  [k \in DOMAIN kept |-> IF im.dims = kept[k] THEN im ELSE Thumbnail(im, kept[k])]

\* ico_images[0].save(ico_path, format='ICO', sizes=[img.size for img in ico_images])
SaveIco(images) ==
    FileOf("ICO", images[1],
           IcoFrames(images[1], [k \in DOMAIN images |-> images[k].dims]))

---------------------------------------------------------------------------
(* The conditions of main's branches *)

\* Mutation: the existence check is lost and the base is always synthesized.
AlwaysMissing(f) == TRUE

\* if not base_image_path.exists():
BaseMissing(f) == ~Exists(f, base_image_path)

\* Mutation: the native size is resampled like the others.
NeverSkips(size) == FALSE

\* if size == 256: continue
SkipsResize(size) == size = NativeSize

\* Mutation: the collection loop finds no file.
NeverCollects(f, p) == FALSE

\* if img_path.exists():
Collects(f, p) == Exists(f, p)

\* if ico_images:
PackagesIco(images) == images # <<>>

---------------------------------------------------------------------------
(* History bookkeeping *)

Call(op, path, size, src, ok) ==
    [op |-> op, path |-> path, size |-> size, src |-> src, ok |-> ok]

Msg(text, n) == <<text, n>>

FinalMessages ==
    <<Msg("done", 0), Msg("files are in SCRIPT_DIR", 0), Msg("- icon-*.png", 0),
      Msg("- icon.ico", 0)>>

EmptyDir == [q \in {} |-> Truncated]

InitialDirs ==
    {EmptyDir, WriteFile(EmptyDir, base_image_path, Truncated)}
    \cup {WriteFile(EmptyDir, base_image_path, ExternalFile(d)) : d \in ExternalDims}

Running == pc \in {"import", "main", "resize", "collect"}

\* The pixels of base_img are in memory: it was drawn, or a resize has
\* already forced the lazily opened file to load.
BaseLoaded ==
    \/ base_img.origin = "drawn"
    \/ \E k \in DOMAIN calls : calls[k].op = "resize" /\ calls[k].ok

---------------------------------------------------------------------------
(* The state after construction: a directory holding at most a base image *)

Init ==
    /\ pillow \in BOOLEAN
    /\ fs \in InitialDirs
    /\ pc = "import"
    /\ size_i = 0
    /\ base_img = NoImage
    /\ ico_images = <<>>
    /\ exit_status = -1
    /\ stdout = <<>>
    /\ calls = <<>>
    /\ run = 1
    /\ fs_start = fs
    /\ synth_run = 0

\* Mutation: the exception is swallowed and the run ends as if complete.
Swallow ==
    /\ pc' = "done"
    /\ exit_status' = 0

\* An uncaught exception: the traceback goes to stderr, the interpreter exits 1.
Abort ==
    /\ pc' = "aborted"
    /\ exit_status' = 1

\* Mutation: no import guard, main starts whatever the import did.
ImportUnguarded ==
    /\ pc = "import"
    /\ pc' = "main"
    /\ UNCHANGED <<pillow, fs, size_i, base_img, ico_images, exit_status, stdout,
                   calls, run, fs_start, synth_run>>

\* try: from PIL import Image
ImportOk ==
    /\ pc = "import"
    /\ pillow
    /\ pc' = "main"
    /\ UNCHANGED <<pillow, fs, size_i, base_img, ico_images, exit_status, stdout,
                   calls, run, fs_start, synth_run>>

\* except ImportError: print the two messages, sys.exit(1)
ImportError ==
    /\ pc = "import"
    /\ ~pillow
    /\ stdout' = stdout \o <<Msg("error: Pillow is required", 0),
                             Msg("run: pip install Pillow", 0)>>
    /\ pc' = "exited"
    /\ exit_status' = 1
    /\ UNCHANGED <<pillow, fs, size_i, base_img, ico_images, calls, run, fs_start,
                   synth_run>>

\* main, the branch that synthesizes the base image and saves it
AcquireSynthesize ==
    /\ pc = "main"
    /\ BaseMissing(fs)
    /\ \E ok \in BOOLEAN :
        LET before == calls \o <<Call("exists", base_image_path, 0, NoImage, FALSE),
                                 Call("create_simple_icon", NoPath, 0, NoImage, TRUE)>>
            said == stdout \o <<Msg("icon-256.png not found", 0),
                                Msg("creating simple icon", 0)>>
        IN  IF ok
            THEN /\ fs' = WriteFile(fs, base_image_path, SavePng(create_simple_icon))
                 /\ base_img' = create_simple_icon
                 /\ calls' = Append(before,
                        Call("save", base_image_path, 0, create_simple_icon, TRUE))
                 /\ stdout' = Append(said, Msg("created icon-256.png", 0))
                 /\ synth_run' = run
                 /\ pc' = "resize"
                 /\ size_i' = 1
                 /\ UNCHANGED exit_status
            ELSE /\ fs' \in FailedSave(fs, base_image_path)
                 /\ calls' = Append(before,
                        Call("save", base_image_path, 0, create_simple_icon, FALSE))
                 /\ stdout' = said
                 /\ Abort
                 /\ UNCHANGED <<base_img, size_i, synth_run>>
    /\ UNCHANGED <<pillow, ico_images, run, fs_start>>

\* main, the branch that opens the existing base image
AcquireLoad ==
    /\ pc = "main"
    /\ ~BaseMissing(fs)
    /\ \E ok \in BOOLEAN :
        LET before == Append(calls, Call("exists", base_image_path, 0, NoImage, TRUE))
            said == Append(stdout, Msg("using existing icon", 0))
        IN  IF ok /\ Identifiable(fs[base_image_path])
            THEN /\ base_img' = ImageOpen(fs[base_image_path])
                 /\ calls' = Append(before, Call("open", base_image_path, 0, NoImage, TRUE))
                 /\ stdout' = said
                 /\ pc' = "resize"
                 /\ size_i' = 1
                 /\ UNCHANGED exit_status
            ELSE /\ calls' = Append(before, Call("open", base_image_path, 0, NoImage, FALSE))
                 /\ stdout' = said
                 /\ Abort
                 /\ UNCHANGED <<base_img, size_i>>
    /\ UNCHANGED <<pillow, fs, ico_images, run, fs_start, synth_run>>

\* for size in SIZES: if size == 256: continue
ResizeContinue ==
    /\ pc = "resize"
    /\ size_i <= Len(SIZES)
    /\ SkipsResize(SIZES[size_i])
    /\ size_i' = size_i + 1
    /\ UNCHANGED <<pillow, fs, pc, base_img, ico_images, exit_status, stdout, calls,
                   run, fs_start, synth_run>>

\* for size in SIZES: resize the base image and save it as icon-{size}.png
ResizeIter ==
    /\ pc = "resize"
    /\ size_i <= Len(SIZES)
    /\ ~SkipsResize(SIZES[size_i])
    /\ LET size == SIZES[size_i]
           output_path == IconPath(size)
           resized == Resize(base_img, size)
       IN  \E outcome \in {"ok", "save raises"} \cup
                          (IF BaseLoaded THEN {} ELSE {"load raises"}) :
             IF outcome = "ok"
             THEN /\ fs' = WriteFile(fs, output_path, SavePng(resized))
                  /\ calls' = calls \o <<Call("resize", NoPath, size, base_img, TRUE),
                                         Call("save", output_path, size, resized, TRUE)>>
                  /\ stdout' = Append(stdout, Msg("ok icon-{size}.png", size))
                  /\ size_i' = size_i + 1
                  /\ UNCHANGED <<pc, exit_status>>
             ELSE IF outcome = "save raises"
             THEN /\ fs' \in FailedSave(fs, output_path)
                  /\ calls' = calls \o <<Call("resize", NoPath, size, base_img, TRUE),
                                         Call("save", output_path, size, resized, FALSE)>>
                  /\ Abort
                  /\ UNCHANGED <<stdout, size_i>>
             ELSE /\ calls' = Append(calls, Call("resize", NoPath, size, base_img, FALSE))
                  /\ Abort
                  /\ UNCHANGED <<fs, stdout, size_i>>
    /\ UNCHANGED <<pillow, base_img, ico_images, run, fs_start, synth_run>>

\* the resize loop is exhausted: ico_images = []
ResizeDone ==
    /\ pc = "resize"
    /\ size_i > Len(SIZES)
    /\ pc' = "collect"
    /\ size_i' = 1
    /\ ico_images' = <<>>
    /\ stdout' = Append(stdout, Msg("generating ICO", 0))
    /\ UNCHANGED <<pillow, fs, base_img, exit_status, calls, run, fs_start, synth_run>>

\* for size in SIZES: if img_path.exists(): ico_images.append(Image.open(img_path))
CollectIter ==
    /\ pc = "collect"
    /\ size_i <= Len(SIZES)
    /\ LET size == SIZES[size_i]
           img_path == IconPath(size)
       IN  IF Collects(fs, img_path)
           THEN \E ok \in BOOLEAN :
                  LET before == Append(calls, Call("exists", img_path, size, NoImage, TRUE))
                  IN  IF ok /\ Exists(fs, img_path) /\ Identifiable(fs[img_path])
                      THEN /\ ico_images' = Append(ico_images, ImageOpen(fs[img_path]))
                           /\ calls' = Append(before,
                                  Call("open", img_path, size, NoImage, TRUE))
                           /\ size_i' = size_i + 1
                           /\ UNCHANGED <<pc, exit_status>>
                      ELSE /\ calls' = Append(before,
                                  Call("open", img_path, size, NoImage, FALSE))
                           /\ Abort
                           /\ UNCHANGED <<ico_images, size_i>>
           ELSE /\ calls' = Append(calls, Call("exists", img_path, size, NoImage, FALSE))
                /\ size_i' = size_i + 1
                /\ UNCHANGED <<ico_images, pc, exit_status>>
    /\ UNCHANGED <<pillow, fs, base_img, stdout, run, fs_start, synth_run>>

\* Mutation: an empty collection is a hard error.
PackageRejectsEmpty ==
    /\ pc = "collect"
    /\ size_i > Len(SIZES)
    /\ IF PackagesIco(ico_images)
       THEN /\ fs' = WriteFile(fs, ico_path, SaveIco(ico_images))
            /\ calls' = Append(calls, Call("save", ico_path, 0, ico_images[1], TRUE))
            /\ stdout' = Append(stdout, Msg("ok icon.ico", 0)) \o FinalMessages
            /\ pc' = "done"
            /\ exit_status' = 0
       ELSE /\ Abort
            /\ UNCHANGED <<fs, calls, stdout>>
    /\ UNCHANGED <<pillow, size_i, base_img, ico_images, run, fs_start, synth_run>>

\* if ico_images: save the first image as icon.ico; then the final messages
Package ==
    /\ pc = "collect"
    /\ size_i > Len(SIZES)
    /\ IF PackagesIco(ico_images)
       THEN \E ok \in BOOLEAN :
              IF ok
              THEN /\ fs' = WriteFile(fs, ico_path, SaveIco(ico_images))
                   /\ calls' = Append(calls, Call("save", ico_path, 0, ico_images[1], TRUE))
                   /\ stdout' = Append(stdout, Msg("ok icon.ico", 0)) \o FinalMessages
                   /\ pc' = "done"
                   /\ exit_status' = 0
              ELSE /\ fs' \in FailedSave(fs, ico_path)
                   /\ calls' = Append(calls, Call("save", ico_path, 0, ico_images[1], FALSE))
                   /\ Abort
                   /\ UNCHANGED stdout
       ELSE /\ stdout' = stdout \o FinalMessages
            /\ pc' = "done"
            /\ exit_status' = 0
            /\ UNCHANGED <<fs, calls>>
    /\ UNCHANGED <<pillow, size_i, base_img, ico_images, run, fs_start, synth_run>>

\* if __name__ == "__main__": main() -- the script is invoked again on the
\* directory the previous run left, in an environment that may have changed.
Restart ==
    /\ ~Running
    /\ run < MaxRuns
    /\ run' = run + 1
    /\ pillow' \in BOOLEAN
    /\ pc' = "import"
    /\ size_i' = 0
    /\ base_img' = NoImage
    /\ ico_images' = <<>>
    /\ exit_status' = -1
    /\ stdout' = <<>>
    /\ calls' = <<>>
    /\ fs_start' = fs
    /\ UNCHANGED <<fs, synth_run>>

\* Another process removes a per-size file while the run is under way.
EnvRemove ==
    /\ Running
    /\ \E k \in DOMAIN SIZES :
         /\ Exists(fs, IconPath(SIZES[k]))
         /\ fs' = RemoveFile(fs, IconPath(SIZES[k]))
    /\ UNCHANGED <<pillow, pc, size_i, base_img, ico_images, exit_status, stdout,
                   calls, run, fs_start, synth_run>>

Next ==
    \/ ImportOk
    \/ ImportError
    \/ AcquireSynthesize
    \/ AcquireLoad
    \/ ResizeContinue
    \/ ResizeIter
    \/ ResizeDone
    \/ CollectIter
    \/ Package
    \/ Restart

\* The script alone on its directory.
Spec == Init /\ [][Next]_vars

\* One run of the script, with the environment acting between its steps.
NextEnv ==
    \/ ImportOk
    \/ ImportError
    \/ AcquireSynthesize
    \/ AcquireLoad
    \/ ResizeContinue
    \/ ResizeIter
    \/ ResizeDone
    \/ CollectIter
    \/ Package
    \/ EnvRemove

\* The script with other processes removing files of the directory.
SpecEnv == Init /\ [][NextEnv]_vars

---------------------------------------------------------------------------
(* Vocabulary of the properties *)

\* The calls of this run that satisfy P, in order.
CallsOf(op) == SelectSeq(calls, LAMBDA c : c.op = op)

ResizeCalls == CallsOf("resize")

ResizedSizes == [k \in DOMAIN ResizeCalls |-> ResizeCalls[k].size]

\* The sizes below the native one, as the resize loop is to visit them.
NonNativeSizes == <<16, 32, 48, 64, 128>>

IsPrefix(a, b) == Len(a) <= Len(b) /\ \A k \in DOMAIN a : a[k] = b[k]

\* Some call of this run saved, or tried to save, to path p.
SavesTo(p) == \E k \in DOMAIN calls : calls[k].op = "save" /\ calls[k].path = p

Synthesized == \E k \in DOMAIN calls : calls[k].op = "create_simple_icon"

\* The file at p is as it was when the run started.
Untouched(p) ==
    /\ Exists(fs, p) <=> Exists(fs_start, p)
    /\ Exists(fs, p) => fs[p] = fs_start[p]

\* The acquisition step of this run is over and did not raise.
Acquired == pc \in {"resize", "collect", "done"} \/ ResizeCalls # <<>>

\* The collection loop is over: the packaging decision is being, or was, taken.
AtPackaging == pc = "collect" /\ size_i > Len(SIZES)

\* The existence check of the collection loop for SIZES[k] found no file.
FoundAbsent(k) ==
    \E j \in DOMAIN calls :
        /\ calls[j].op = "exists"
        /\ calls[j].size = SIZES[k]
        /\ calls[j].path = <<"icon-", SIZES[k], ".png">>
        /\ ~calls[j].ok

NoneFound == \A k \in DOMAIN SIZES : FoundAbsent(k)

\* No call of this run raised (for an existence check, ok is its answer).
NoFailedCall == \A k \in DOMAIN calls : calls[k].op # "exists" => calls[k].ok

---------------------------------------------------------------------------
(* Properties *)

\* C1: after a run that completes without error, for every size s of SIZES
\* the file icon-s.png exists and its dimensions are exactly s x s, whether
\* icon-256.png was absent at the start or present with any dimensions.
C1_EverySizeExact ==
    pc = "done" =>
        \A k \in DOMAIN SIZES :
            /\ Exists(fs, <<"icon-", SIZES[k], ".png">>)
            /\ fs[<<"icon-", SIZES[k], ".png">>].dims = <<SIZES[k], SIZES[k]>>

\* C2: when icon-256.png exists at the start of the run, no step of the run
\* writes to it and its content stays what it was, create_simple_icon is
\* never called, and every resize takes the image opened from that file as
\* its source.
C2_ExistingBaseUntouched ==
    Exists(fs_start, base_image_path) =>
        /\ ~SavesTo(<<"icon-", 256, ".png">>)
        /\ Exists(fs, <<"icon-", 256, ".png">>)
        /\ fs[<<"icon-", 256, ".png">>] = fs_start[<<"icon-", 256, ".png">>]
        /\ ~Synthesized
        /\ \A k \in DOMAIN ResizeCalls :
               ResizeCalls[k].src = ImageOpen(fs_start[<<"icon-", 256, ".png">>])

\* A run on a user-supplied base image has completed, with all five resizes.
C2_Witness ==
    /\ pc = "done"
    /\ Exists(fs_start, base_image_path)
    /\ fs_start[base_image_path].origin = "external"
    /\ Len(ResizeCalls) = 5

\* C3: when icon-256.png does not exist at the start of the run, an
\* acquisition that finishes has synthesized a 256 x 256 image and saved it
\* to icon-256.png, so the file exists with dimensions 256 x 256 from then
\* on; every later run takes the load branch: it synthesizes nothing and
\* does not write icon-256.png.
C3_SynthesisOnceThenLoad ==
    /\ (~Exists(fs_start, base_image_path) /\ Acquired) =>
           /\ Synthesized
           /\ \E k \in DOMAIN calls :
                  /\ calls[k].op = "save"
                  /\ calls[k].path = <<"icon-", 256, ".png">>
                  /\ calls[k].src.dims = <<256, 256>>
                  /\ calls[k].ok
           /\ synth_run = run
           /\ Exists(fs, <<"icon-", 256, ".png">>)
           /\ fs[<<"icon-", 256, ".png">>].fmt = "PNG"
           /\ fs[<<"icon-", 256, ".png">>].dims = <<256, 256>>
           /\ fs[<<"icon-", 256, ".png">>].origin = "drawn"
    /\ (synth_run # 0 /\ run > synth_run) =>
           /\ Exists(fs_start, <<"icon-", 256, ".png">>)
           /\ fs[<<"icon-", 256, ".png">>] = fs_start[<<"icon-", 256, ".png">>]
           /\ fs[<<"icon-", 256, ".png">>].dims = <<256, 256>>
           /\ ~Synthesized
           /\ ~SavesTo(<<"icon-", 256, ".png">>)
           /\ Acquired => \E k \in DOMAIN calls :
                              /\ calls[k].op = "open"
                              /\ calls[k].path = <<"icon-", 256, ".png">>
                              /\ calls[k].ok

\* The run after the one that synthesized the base image has completed.
C3_Witness ==
    /\ synth_run = 1
    /\ run = 2
    /\ pc = "done"
    /\ \E k \in DOMAIN calls : calls[k].op = "open" /\ calls[k].path = base_image_path

\* C4: resize is never called with target size 256; the sizes resized are,
\* in order and once each, 16, 32, 48, 64, 128 (all five once the loop is
\* over); and icon-256.png exists when packaging begins and when the run has
\* reached its end.
C4_NativeNeverResampled ==
    /\ \A k \in DOMAIN ResizedSizes : ResizedSizes[k] # 256
    /\ IsPrefix(ResizedSizes, NonNativeSizes)
    /\ pc \in {"collect", "done"} =>
           /\ ResizedSizes = NonNativeSizes
           /\ \A k \in DOMAIN ResizeCalls : ResizeCalls[k].ok
           /\ Exists(fs, <<"icon-", 256, ".png">>)

\* A run has completed after resizing five sizes.
C4_Witness ==
    /\ pc = "done"
    /\ Len(ResizedSizes) = 5
    /\ Exists(fs, base_image_path)

\* C5: if at packaging time the six files icon-16.png ... icon-256.png exist
\* (here: each was collected, with its nominal dimensions), icon.ico is
\* written with exactly 6 embedded images of dimensions 16, 32, 48, 64, 128
\* and 256, each being the corresponding collected image.
C5_IcoEmbedsAllSix ==
    (/\ pc = "done"
     /\ Len(ico_images) = 6
     /\ \A k \in DOMAIN ico_images : ico_images[k].dims = <<SIZES[k], SIZES[k]>>) =>
        /\ Exists(fs, <<"icon", 0, ".ico">>)
        /\ fs[<<"icon", 0, ".ico">>].fmt = "ICO"
        /\ Len(fs[<<"icon", 0, ".ico">>].frames) = 6
        /\ \A k \in 1..6 : fs[<<"icon", 0, ".ico">>].frames[k] = ico_images[k]


\* C6: if at packaging time none of the files icon-s.png exists (every
\* existence check of the collection loop found nothing), the step the
\* script takes next writes no icon.ico, raises nothing and ends the run
\* with exit status zero; and a run that ended that way saved no icon.ico.
C6_EmptyPackagingSkips ==
    [][ (AtPackaging /\ NoneFound /\ pc' # pc) =>
            /\ pc' = "done"
            /\ exit_status' = 0
            /\ fs' = fs
            /\ calls' = calls
            /\ ~\E k \in DOMAIN calls' :
                   calls'[k].op = "save" /\ calls'[k].path = <<"icon", 0, ".ico">>
            /\ ~Exists(fs_start, <<"icon", 0, ".ico">>) =>
                   ~Exists(fs', <<"icon", 0, ".ico">>) ]_vars

\* A run has ended after a collection loop that found none of the six files.
C6_Witness ==
    /\ pc = "done"
    /\ NoneFound
    /\ ico_images = <<>>
    /\ ~Exists(fs, ico_path)

\* C7: if the imaging library cannot be imported the program exits with
\* status 1 after printing its diagnostic, having made no library or
\* filesystem call and with the directory as it was; if it can be imported
\* and no call fails, the run cannot stop before its end, where the exit
\* status is zero.
C7_ImportGuard ==
    /\ (~pillow /\ pc # "import") =>
           /\ pc = "exited"
           /\ exit_status = 1
           /\ stdout = <<Msg("error: Pillow is required", 0),
                         Msg("run: pip install Pillow", 0)>>
           /\ calls = <<>>
           /\ fs = fs_start
           /\ base_img = NoImage
           /\ ico_images = <<>>
    /\ pc = "exited" => ~pillow
    /\ (pillow /\ NoFailedCall) =>
           /\ pc \in {"import", "main", "resize", "collect", "done"}
           /\ pc # "done" => exit_status = -1 /\ ENABLED Next
           /\ pc = "done" => exit_status = 0
    /\ exit_status = 0 => pillow /\ NoFailedCall /\ pc = "done"

\* The import failed in a directory that holds a base image, and the program exited.
C7_Witness ==
    /\ pc = "exited"
    /\ exit_status = 1
    /\ Exists(fs, base_image_path)

\* C8: a run that starts with an empty directory and meets no error ends
\* with exactly 7 files: icon-16.png ... icon-128.png made by resizing the
\* synthesized image, icon-256.png made by synthesis, and icon.ico.
C8_FreshRunSevenFiles ==
    (pc = "done" /\ DOMAIN fs_start = {}) =>
        /\ DOMAIN fs = {<<"icon-", 16, ".png">>, <<"icon-", 32, ".png">>,
                        <<"icon-", 48, ".png">>, <<"icon-", 64, ".png">>,
                        <<"icon-", 128, ".png">>, <<"icon-", 256, ".png">>,
                        <<"icon", 0, ".ico">>}
        /\ Cardinality(DOMAIN fs) = 7
        /\ \A k \in DOMAIN NonNativeSizes :
               LET file == fs[<<"icon-", NonNativeSizes[k], ".png">>]
               IN  /\ file.fmt = "PNG"
                   /\ file.origin = "drawn"
                   /\ file.ops = <<<<"resize", NonNativeSizes[k], NonNativeSizes[k]>>>>
        /\ fs[<<"icon-", 256, ".png">>].fmt = "PNG"
        /\ fs[<<"icon-", 256, ".png">>].origin = "drawn"
        /\ fs[<<"icon-", 256, ".png">>].ops = <<>>
        /\ fs[<<"icon", 0, ".ico">>].fmt = "ICO"

\* A run that started with an empty directory has completed.
C8_Witness ==
    /\ pc = "done"
    /\ DOMAIN fs_start = {}
    /\ Synthesized

\* The failed save of a resized file, if this run had one: its index in calls.
FailedResizeSaves ==
    {k \in DOMAIN calls : calls[k].op = "save" /\ calls[k].size # 0 /\ ~calls[k].ok}

\* C9: if writing the resized file for a size s fails, the run aborts there:
\* that call is the last of the run (no later size is resized, no file is
\* collected, icon.ico is neither written nor rewritten), the exit status is
\* 1, and every file the run had written before is on disk as written.
C9_FailedResizeAborts ==
    \A k \in FailedResizeSaves :
        /\ k = Len(calls)
        /\ pc = "aborted"
        /\ exit_status = 1
        /\ IsPrefix(ResizedSizes, NonNativeSizes)
        /\ ResizedSizes[Len(ResizedSizes)] = calls[k].size
        /\ ~SavesTo(<<"icon", 0, ".ico">>)
        /\ Untouched(<<"icon", 0, ".ico">>)
        /\ ico_images = <<>>
        /\ \A j \in 1..(k - 1) :
               calls[j].op = "save" =>
                   /\ calls[j].ok
                   /\ Exists(fs, calls[j].path)
                   /\ fs[calls[j].path] = SavePng(calls[j].src)

\* The save of icon-48.png failed in a run that had synthesized the base image.
C9_Witness ==
    /\ pc = "aborted"
    /\ Synthesized
    /\ \E k \in FailedResizeSaves : calls[k].size = 48
    /\ Exists(fs, IconPath(16))
    /\ Exists(fs, IconPath(32))

\* The paths the collection loop opened, in order.
CollectedPaths ==
    LET opened == SelectSeq(calls, LAMBDA c : c.op = "open" /\ c.size # 0 /\ c.ok)
    IN  [k \in DOMAIN opened |-> opened[k].path]

\* C10: with no other process touching the directory, whenever packaging is
\* reached the collected sequence is not empty: it holds the images of all
\* six files, in increasing size order, the last being icon-256.png; so the
\* branch that skips icon.ico is never taken and a run that reached its end
\* has written icon.ico.
C10_PackagingNeverEmpty ==
    /\ AtPackaging =>
           /\ ico_images # <<>>
           /\ Len(ico_images) = 6
           /\ CollectedPaths = <<<<"icon-", 16, ".png">>, <<"icon-", 32, ".png">>,
                                 <<"icon-", 48, ".png">>, <<"icon-", 64, ".png">>,
                                 <<"icon-", 128, ".png">>, <<"icon-", 256, ".png">>>>
           /\ \A k \in DOMAIN ico_images :
                  ico_images[k] = ImageOpen(fs[<<"icon-", SIZES[k], ".png">>])
    /\ pc = "done" =>
           /\ \E k \in DOMAIN calls :
                  /\ calls[k].op = "save"
                  /\ calls[k].path = <<"icon", 0, ".ico">>
                  /\ calls[k].ok
           /\ Exists(fs, <<"icon", 0, ".ico">>)
           /\ fs[<<"icon", 0, ".ico">>].fmt = "ICO"
           /\ fs[<<"icon", 0, ".ico">>].frames # <<>>

\* A run on a user-supplied base image is about to package six collected images.
C10_Witness ==
    /\ AtPackaging
    /\ Len(ico_images) = 6
    /\ ico_images[6].origin = "external"

====
